---------------------------- MODULE Spec2Model ----------------------------
(***************************************************************************)
(* Model of the thumbnail renderer of src/src/lib/actions.ts:              *)
(* generateThumbnail (gradient drawn on the canvas) and                    *)
(* generateThumbnailWithImage (gradient image loaded from public/).        *)
(*                                                                         *)
(* A JavaScript string is a sequence of one-character strings (UTF-16     *)
(* code units).  A path on disk is the sequence of its segments from the   *)
(* root, each segment a TLA+ string.  The file system is a set of          *)
(* directories and a map from paths to file contents.  Several calls run   *)
(* on one event loop: the synchronous code of a call runs to its next      *)
(* await without interleaving, the awaited I/O lands at any later time.    *)
(***************************************************************************)
EXTENDS Integers, Sequences, FiniteSets, TLC

(***************************************************************************)
(* Bounds of the model.                                                    *)
(***************************************************************************)
\* longest title made of the characters of Alphabet
MaxLen == 3
\* number of render calls of one behaviour
MaxCalls == 3
\* number of render calls that may overlap
MaxConcurrent == 2

(***************************************************************************)
(* Characters and strings.                                                 *)
(***************************************************************************)
LowerCase ==
    << "a", "b", "c", "d", "e", "f", "g", "h", "i", "j", "k", "l", "m",
       "n", "o", "p", "q", "r", "s", "t", "u", "v", "w", "x", "y", "z" >>

UpperCase ==
    << "A", "B", "C", "D", "E", "F", "G", "H", "I", "J", "K", "L", "M",
       "N", "O", "P", "Q", "R", "S", "T", "U", "V", "W", "X", "Y", "Z" >>

Digits == { "0", "1", "2", "3", "4", "5", "6", "7", "8", "9" }

Range(s) == { s[i] : i \in DOMAIN s }

\* the characters the titles of bounded length are made of: a lower-case and
\* an upper-case letter, the word separator, the path separator, the dot of
\* "." and ".." segments, and one more punctuation character
Alphabet == { "a", "B", " ", "/", ".", "?" }

RECURSIVE Str(_)
\* a sequence of characters as one TLA+ string
Str(cs) == IF cs = << >> THEN "" ELSE Head(cs) \o Str(Tail(cs))

\* the literal '.png' of the template strings
DotPng == << ".", "p", "n", "g" >>

\* the literal '/thumbnails/' of the returned template strings
ThumbnailsUrlPrefix ==
    << "/", "t", "h", "u", "m", "b", "n", "a", "i", "l", "s", "/" >>

\* String.prototype.toLowerCase on one code unit (ASCII letters)
LowerChar(c) ==
    IF \E i \in DOMAIN UpperCase : UpperCase[i] = c
    THEN LowerCase[CHOOSE i \in DOMAIN UpperCase : UpperCase[i] = c]
    ELSE c

\* String.prototype.toLowerCase
toLowerCase(cs) == [i \in DOMAIN cs |-> LowerChar(cs[i])]

\* does /[a-z0-9]/i match the character: the i flag adds A-Z and nothing else
MatchesAlnum(c) ==
    c \in Range(LowerCase) \cup Range(UpperCase) \cup Digits

\* title.replace(/[^a-z0-9]/gi, '_')
replaceNonAlnum(cs) ==
    [i \in DOMAIN cs |-> IF MatchesAlnum(cs[i]) THEN cs[i] ELSE "_"]

\* the index of the first occurrence of character c in cs, 0 when there is none
IndexOf(cs, c) ==
    IF \E i \in DOMAIN cs : cs[i] = c
    THEN CHOOSE i \in DOMAIN cs : cs[i] = c /\ \A j \in 1..(i - 1) : cs[j] # c
    ELSE 0

RECURSIVE splitDropEmpty(_, _)
\* split as a whitespace tokenizer would do it: no empty piece is kept, so
\* "" gives []
splitDropEmpty(cs, sep) ==
    LET k == IndexOf(cs, sep)
    IN  IF cs = << >> THEN << >>
        ELSE IF k = 0 THEN << cs >>
        ELSE (IF k = 1 THEN << >> ELSE << SubSeq(cs, 1, k - 1) >>)
                 \o splitDropEmpty(SubSeq(cs, k + 1, Len(cs)), sep)

RECURSIVE split(_, _)
\* String.prototype.split with a one-character separator: every occurrence
\* of the separator cuts, so "" gives [""] and "a  b" gives ["a", "", "b"]
split(cs, sep) ==
    LET k == IndexOf(cs, sep)
    IN  IF k = 0
        THEN << cs >>
        ELSE << SubSeq(cs, 1, k - 1) >> \o split(SubSeq(cs, k + 1, Len(cs)), sep)

(***************************************************************************)
(* path.join of Node.js on POSIX: the arguments are joined with '/' and    *)
(* the result is normalized: empty and '.' segments are dropped, a '..'    *)
(* segment removes the segment before it, and stops at the root.           *)
(***************************************************************************)
RECURSIVE joinWithSlash(_)
joinWithSlash(parts) ==
    IF Len(parts) = 0 THEN << >>
    ELSE IF Len(parts) = 1 THEN parts[1]
    ELSE parts[1] \o << "/" >> \o joinWithSlash(Tail(parts))

RECURSIVE normalizeSegments(_, _)
\* the segments of an absolute path, left to right, onto the result so far
normalizeSegments(segs, res) ==
    IF segs = << >> THEN res
    ELSE LET s == Head(segs)
         IN  IF s = << >> \/ s = << "." >>
             THEN normalizeSegments(Tail(segs), res)
             ELSE IF s = << ".", "." >>
             THEN normalizeSegments(Tail(segs),
                      IF res = << >> THEN res ELSE SubSeq(res, 1, Len(res) - 1))
             ELSE normalizeSegments(Tail(segs), Append(res, Str(s)))

\* path.join(...parts) for a first part that is absolute
pathJoin(parts) == normalizeSegments(split(joinWithSlash(parts), "/"), << >>)

\* process.cwd(): the directory the server runs in
Cwd == << "/", "a", "p", "p" >>

Public == << "p", "u", "b", "l", "i", "c" >>

Thumbnails == << "t", "h", "u", "m", "b", "n", "a", "i", "l", "s" >>

GradientBg ==
    << "g", "r", "a", "d", "i", "e", "n", "t", "-", "b", "g", ".", "p", "n", "g" >>


AllStrings(chars, n) == UNION { [1..k -> chars] : k \in 0..n }

\* titles given in full: path traversal out of public/thumbnails, out of
\* public/ and onto the background asset, a name with a sub-directory,
\* titles of several words, of nine and of ten words, and titles with a tab
\* and a newline
NamedTitles ==
    { << ".", ".", "/", "a" >>,
      << ".", ".", "/", ".", ".", "/", "a" >>,
      << ".", ".", "/", "g", "r", "a", "d", "i", "e", "n", "t", "-", "b", "g" >>,
      << "A", "/", "B" >>,
      << "A", " ", "B" >>,
      << "a", "_", "b" >>,
      << "H", "i", " ", "y", "o", "u", " ", "2" >>,
      << "A", "/", "B", ":", "C", "?" >>,
      << "a", " ", "b", " ", "c" >>,
      << "a", " ", "b", " ", "c", " ", "d", " ", "e" >>,
      << "a", " ", "b", " ", "c", " ", "d", " ", "e", " ", "f", " ", "g",
         " ", "h", " ", "i" >>,
      << "a", " ", "b", " ", "c", " ", "d", " ", "e", " ", "f", " ", "g",
         " ", "h", " ", "i", " ", "j" >>,
      << "a", "\t", "b" >>,
      << "a", "\n", "b" >>,
      << "H", "e", "l", "l", "o", " ", "W", "o", "r", "l", "d" >> }

\* the titles of the one-call specification
AllTitles == AllStrings(Alphabet, MaxLen) \cup NamedTitles

\* the titles of the specification of several calls
FewTitles ==
    { << "a", "_", "b" >>,
      << "a", " ", "b" >>,
      << ".", ".", "/", "g", "r", "a", "d", "i", "e", "n", "t", "-", "b", "g" >> }

\* the widths ctx.measureText gives one character of 'bold 40px Arial': the
\* font is the host's, so the metric is any of these (a uniform width per
\* character; with the widest a candidate line of two characters measures
\* exactly maxTextWidth, with the middle one a candidate line of five
\* characters does, so short titles wrap)
CharWidths == { 20, 152, 380 }

(***************************************************************************)
(* The renderer's constants.                                               *)
(***************************************************************************)
canvasWidth == 800
canvasHeight == 400
padding == 20
lineHeight == 50
maxTextWidth == canvasWidth - padding * 2

Modes == { "solid", "image" }

Calls == 1..MaxCalls

VARIABLES
    dirs,       \* the directories of the file system
    files,      \* the files of the file system: path -> content
    calls,      \* the render calls: call -> its local state
    running,    \* the call whose synchronous code runs, 0 when none does
    charWidth,  \* the host font's metric
    isMobileOpen,   \* SiteHeader: the state of useState(false)
    shown,          \* SiteHeader: isMobileOpen as the committed render read it
    events,         \* SiteHeader: the clicks and callbacks handled so far
    posts,          \* sitemap: the posts of '#site/content'
    sitemapResult   \* sitemap: what the call of sitemap() resolved with

\* the state of the pages, which the render calls leave alone
pageVars == << isMobileOpen, shown, events, posts, sitemapResult >>

\* the state of the thumbnail generator, which the pages leave alone
thumbnailVars == << dirs, files, calls, running, charWidth >>

vars == << dirs, files, calls, running, charWidth,
           isMobileOpen, shown, events, posts, sitemapResult >>

(***************************************************************************)
(* The file system.                                                        *)
(***************************************************************************)
PublicDir == pathJoin(<< Cwd, Public >>)

ThumbnailsDir == pathJoin(<< Cwd, Public, Thumbnails >>)

\* path.join(process.cwd(), 'public', 'gradient-bg.png')
gradientImagePath == pathJoin(<< Cwd, Public, GradientBg >>)

\* the gradient image shipped with the site
AssetImage == [format |-> "asset"]

\* what a write that failed after opening its file leaves in it
TruncatedFile == [format |-> "truncated"]

Parent(path) == SubSeq(path, 1, Len(path) - 1)

\* can a file be opened for writing at the path: its directory exists and
\* the path is no directory
Writable(path) == path # << >> /\ Parent(path) \in dirs /\ path \notin dirs

(***************************************************************************)
(* The pure steps of a render call.                                        *)
(***************************************************************************)
\* ctx.measureText(text).width
measureText(text) == Len(text) * charWidth

\* words[0] of an empty array
Undefined == << "undefined" >>

RECURSIVE wrapLoopUpTo(_, _, _, _)
\* a wrap loop that also appends a word when the candidate line measures
\* exactly maxTextWidth
wrapLoopUpTo(words, i, currentLine, lines) ==
    IF i > Len(words)
    THEN Append(lines, currentLine)
    ELSE LET word == words[i]
             width == measureText(currentLine \o << " " >> \o word)
         IN  IF width <= maxTextWidth
             THEN wrapLoopUpTo(words, i + 1, currentLine \o << " " >> \o word, lines)
             ELSE wrapLoopUpTo(words, i + 1, word, Append(lines, currentLine))

RECURSIVE wrapLoopNoSpace(_, _, _, _)
\* a wrap loop that appends the word to the line without the space
wrapLoopNoSpace(words, i, currentLine, lines) ==
    IF i > Len(words)
    THEN Append(lines, currentLine)
    ELSE LET word == words[i]
             width == measureText(currentLine \o << " " >> \o word)
         IN  IF width < maxTextWidth
             THEN wrapLoopNoSpace(words, i + 1, currentLine \o word, lines)
             ELSE wrapLoopNoSpace(words, i + 1, word, Append(lines, currentLine))

RECURSIVE wrapLoopNoCommit(_, _, _, _)
\* a wrap loop without the push of the last line after the loop
wrapLoopNoCommit(words, i, currentLine, lines) ==
    IF i > Len(words)
    THEN lines
    ELSE LET word == words[i]
             width == measureText(currentLine \o << " " >> \o word)
         IN  IF width < maxTextWidth
             THEN wrapLoopNoCommit(words, i + 1, currentLine \o << " " >> \o word, lines)
             ELSE wrapLoopNoCommit(words, i + 1, word, Append(lines, currentLine))

RECURSIVE wrapLoopDropLine(_, _, _, _)
\* a wrap loop that starts the new line without pushing the line it ends
wrapLoopDropLine(words, i, currentLine, lines) ==
    IF i > Len(words)
    THEN Append(lines, currentLine)
    ELSE LET word == words[i]
             width == measureText(currentLine \o << " " >> \o word)
         IN  IF width < maxTextWidth
             THEN wrapLoopDropLine(words, i + 1, currentLine \o << " " >> \o word, lines)
             ELSE wrapLoopDropLine(words, i + 1, word, lines)

RECURSIVE wrapLoopWordOnly(_, _, _, _)
\* a wrap loop that measures the word alone, not the line with the word
wrapLoopWordOnly(words, i, currentLine, lines) ==
    IF i > Len(words)
    THEN Append(lines, currentLine)
    ELSE LET word == words[i]
             width == measureText(word)
         IN  IF width < maxTextWidth
             THEN wrapLoopWordOnly(words, i + 1, currentLine \o << " " >> \o word, lines)
             ELSE wrapLoopWordOnly(words, i + 1, word, Append(lines, currentLine))

RECURSIVE wrapLoopInverted(_, _, _, _)
\* a wrap loop with the comparison the wrong way round
wrapLoopInverted(words, i, currentLine, lines) ==
    IF i > Len(words)
    THEN Append(lines, currentLine)
    ELSE LET word == words[i]
             width == measureText(currentLine \o << " " >> \o word)
         IN  IF width >= maxTextWidth
             THEN wrapLoopInverted(words, i + 1, currentLine \o << " " >> \o word, lines)
             ELSE wrapLoopInverted(words, i + 1, word, Append(lines, currentLine))

RECURSIVE wrapLoop(_, _, _, _)
\* the loop of generateThumbnail from index i (1-based here), and the push
\* after it
wrapLoop(words, i, currentLine, lines) ==
    IF i > Len(words)
    THEN Append(lines, currentLine)
    ELSE LET word == words[i]
             width == measureText(currentLine \o << " " >> \o word)
         IN  IF width < maxTextWidth
             THEN wrapLoop(words, i + 1, currentLine \o << " " >> \o word, lines)
             ELSE wrapLoop(words, i + 1, word, Append(lines, currentLine))

\* the wrap text logic of generateThumbnail
wrapText(title) ==
    LET words == split(title, " ")
    IN  wrapLoop(words, 2, IF Len(words) > 0 THEN words[1] ELSE Undefined, << >>)

RECURSIVE wrapLoopCanvasWide(_, _, _, _)
\* a wrap loop that compares the candidate line with the canvas width, not
\* with the width that is left between the paddings
wrapLoopCanvasWide(words, i, currentLine, lines) ==
    IF i > Len(words)
    THEN Append(lines, currentLine)
    ELSE LET word == words[i]
             width == measureText(currentLine \o << " " >> \o word)
         IN  IF width < canvasWidth
             THEN wrapLoopCanvasWide(words, i + 1,
                                     currentLine \o << " " >> \o word, lines)
             ELSE wrapLoopCanvasWide(words, i + 1, word, Append(lines, currentLine))

RECURSIVE wrapLoopWithImage(_, _, _, _)
\* the loop of generateThumbnailWithImage, and the push after it
wrapLoopWithImage(words, i, currentLine, lines) ==
    IF i > Len(words)
    THEN Append(lines, currentLine)
    ELSE LET word == words[i]
             width == measureText(currentLine \o << " " >> \o word)
         IN  IF width < maxTextWidth
             THEN wrapLoopWithImage(words, i + 1,
                                    currentLine \o << " " >> \o word, lines)
             ELSE wrapLoopWithImage(words, i + 1, word, Append(lines, currentLine))

\* the wrap text logic of generateThumbnailWithImage
wrapTextWithImage(title) ==
    LET words == split(title, " ")
    IN  wrapLoopWithImage(words, 2,
                          IF Len(words) > 0 THEN words[1] ELSE Undefined, << >>)

\* a first y without the half line height
startYTop(n) == (canvasHeight - n * lineHeight) \div 2

\* the y of the first line in generateThumbnail: 400 - 50 n is even, so the
\* division is exact
startY(n) == (canvasHeight - n * lineHeight) \div 2 + lineHeight \div 2

\* the y of the first line in generateThumbnailWithImage
startYWithImage(n) == (canvasHeight - n * lineHeight) \div 2 + lineHeight \div 2

\* `${title}.png`, the last argument of generateThumbnail's path.join
fileName(title) == title \o DotPng

\* the string generateThumbnail returns
returnedPath(title) == ThumbnailsUrlPrefix \o title \o DotPng

\* a file name that keeps the case of the title's letters
fileNameKeepCase(title) == replaceNonAlnum(title) \o DotPng

\* the last argument of generateThumbnailWithImage's path.join
fileNameWithImage(title) == toLowerCase(replaceNonAlnum(title)) \o DotPng

\* a returned string built from the title as it is
returnedPathUnsanitized(title) == ThumbnailsUrlPrefix \o title \o DotPng

\* the string generateThumbnailWithImage returns
returnedPathWithImage(title) ==
    ThumbnailsUrlPrefix \o toLowerCase(replaceNonAlnum(title)) \o DotPng

\* outputPath of either function
outputPathOf(mode, title) ==
    pathJoin(<< Cwd, Public, Thumbnails,
                IF mode = "solid" THEN fileName(title)
                                  ELSE fileNameWithImage(title) >>)

\* canvas.toBuffer('image/png'): the bytes are those of the canvas content
toBuffer(canvas) == [format |-> "image/png", pixels |-> canvas]

(***************************************************************************)
(* SiteHeader.  useState(false) holds isMobileOpen; a render reads it, and *)
(* the closures and the JSX of that render keep the value they read.  A    *)
(* click and a callback of MobileNav are each handled in an event of their *)
(* own, and React renders again before the next event is handled.          *)
(***************************************************************************)
\* the number of clicks and callbacks of one behaviour
MaxEvents == 12

\* useState(false), the first render, and nothing handled yet
InitSiteHeader ==
    /\ isMobileOpen = FALSE
    /\ shown = FALSE
    /\ events = << >>

\* {isMobileOpen && <MobileNav ... />}
MobileNavRendered == shown

\* an onClick that always opens the menu
ClickMenuButtonOpens ==
    /\ Len(events) < MaxEvents
    /\ isMobileOpen' = TRUE
    /\ shown' = isMobileOpen'
    /\ events' = Append(events, "click")
    /\ UNCHANGED << posts, sitemapResult, thumbnailVars >>

\* onClick={() => setIsMobileOpen(!isMobileOpen)} and the render after it
ClickMenuButton ==
    /\ Len(events) < MaxEvents
    /\ isMobileOpen' = ~ shown
    /\ shown' = isMobileOpen'
    /\ events' = Append(events, "click")
    /\ UNCHANGED << posts, sitemapResult, thumbnailVars >>

\* onOpenChange={() => setIsMobileOpen(false)}, called by the MobileNav
\* that is rendered, and the render after it
MobileNavOnOpenChange ==
    /\ Len(events) < MaxEvents
    /\ MobileNavRendered
    /\ isMobileOpen' = FALSE
    /\ shown' = isMobileOpen'
    /\ events' = Append(events, "onOpenChange")
    /\ UNCHANGED << posts, sitemapResult, thumbnailVars >>

(***************************************************************************)
(* sitemap().                                                              *)
(***************************************************************************)
\* the number of posts
MaxPosts == 3

\* the slugs of the posts, one per content file
SlugNames == << "first-post", "second-post", "third-post", "fourth-post", "fifth-post" >>

Slugs == { SlugNames[i] : i \in 1..MaxPosts }

\* the date of the front matter
PostDates == { "2025-02-27" }

Posts == [slug : Slugs, published : BOOLEAN, date : PostDates]

RECURSIVE PostLists(_)
\* the lists of at most n posts of different content files
PostLists(n) ==
    IF n = 0 THEN { << >> }
    ELSE LET shorter == PostLists(n - 1)
         IN  shorter \cup
                 { Append(ps, p) : ps \in { q \in shorter : Len(q) = n - 1 },
                                   p \in Posts }

HasDistinctSlugs(ps) ==
    \A i, j \in 1..Len(ps) : i # j => ps[i].slug # ps[j].slug

\* new Date(...)
NewDate(value) == [dateOf |-> value]

\* sitemap() has not been called
NotCalled == [called |-> FALSE, entries |-> << >>]

InitSitemapIdle ==
    /\ posts = << >>
    /\ sitemapResult = NotCalled

\* posts.filter(post => post.published).map(post => ({ ... }));
\* priority is in tenths
blogUrls(ps) ==
    LET published == SelectSeq(ps, LAMBDA post : post.published)
    IN  [i \in 1..Len(published) |->
            [url |-> "https://hamidul-islam.vercel.app/blog/" \o published[i].slug,
             lastModified |-> NewDate(published[i].date),
             changeFrequency |-> "weekly",
             priority |-> 7]]

\* the static routes
routes ==
    << [url |-> "https://hamidul-islam.vercel.app",
        lastModified |-> NewDate("now"),
        changeFrequency |-> "daily",
        priority |-> 10],
       [url |-> "https://hamidul-islam.vercel.app/blog",
        lastModified |-> NewDate("now"),
        changeFrequency |-> "daily",
        priority |-> 8] >>

\* a sitemap that lists every post, published or not
sitemapOfAllPosts(ps) ==
    routes \o [i \in 1..Len(ps) |->
                  [url |-> "https://hamidul-islam.vercel.app/blog/" \o ps[i].slug,
                   lastModified |-> NewDate(ps[i].date),
                   changeFrequency |-> "weekly",
                   priority |-> 7]]

\* return [...routes, ...blogUrls]
sitemap(ps) == routes \o blogUrls(ps)

\* a call of sitemap()
CallSitemap ==
    /\ ~ sitemapResult.called
    /\ sitemapResult' = [called |-> TRUE, entries |-> sitemap(posts)]
    /\ UNCHANGED << posts, isMobileOpen, shown, events, thumbnailVars >>

(***************************************************************************)
(* The render calls.  pc is the place of a call in its function:           *)
(*   idle        not invoked yet                                           *)
(*   load        awaiting loadImage (generateThumbnailWithImage)           *)
(*   background  about to draw the background                              *)
(*   layout      about to wrap the title                                   *)
(*   draw        drawing the lines, then encoding                          *)
(*   write       awaiting writeFile                                        *)
(*   written     writeFile resolved, about to return                       *)
(*   returned    the promise is fulfilled with ret                         *)
(*   failed      the promise is rejected with err                          *)
(* log is the history of what the call has done, in order; landed is the   *)
(* rank of its write among the writes that have landed, 0 before.          *)
(***************************************************************************)
NoImage == [format |-> "none"]

BlankCanvas == [bg |-> [kind |-> "none"], text |-> << >>]

NoBuffer == [format |-> "none"]

NoPath == << >>

IdleCall ==
    [ pc |-> "idle", mode |-> "none", title |-> << >>, img |-> NoImage,
      canvas |-> BlankCanvas, words |-> << >>, lines |-> << >>, y |-> 0,
      drawn |-> 0, outputPath |-> << >>, buffer |-> NoBuffer, writes |-> 0,
      landed |-> 0, ret |-> NoPath, err |-> "none", log |-> << >> ]

\* the rank of the next write to land
NextRank == Cardinality({ d \in Calls : calls[d].landed > 0 }) + 1

Init ==
    /\ \E hasThumbnailsDir \in BOOLEAN :
           dirs = { << >>, pathJoin(<< Cwd >>), PublicDir }
                      \cup (IF hasThumbnailsDir THEN { ThumbnailsDir } ELSE { })
    /\ \E hasAsset \in BOOLEAN :
           files = IF hasAsset THEN (gradientImagePath :> AssetImage) ELSE << >>
    /\ calls = [c \in Calls |-> IdleCall]
    /\ running = 0
    /\ charWidth \in CharWidths
    /\ InitSiteHeader
    /\ InitSitemapIdle

\* a request calls one of the two functions: the canvas is created;
\* generateThumbnail goes on synchronously, generateThumbnailWithImage
\* awaits loadImage
Invoke(c, mode, title) ==
    /\ running = 0
    /\ calls[c].pc = "idle"
    /\ IF c = 1 THEN TRUE ELSE calls[c - 1].pc # "idle"
    /\ calls' = [calls EXCEPT ![c] =
                    [IdleCall EXCEPT !.pc = IF mode = "solid" THEN "background"
                                                               ELSE "load",
                                     !.mode = mode,
                                     !.title = title,
                                     !.canvas = BlankCanvas,
                                     !.log = << << "createCanvas", 0 >> >>]]
    /\ running' = IF mode = "solid" THEN c ELSE 0
    /\ UNCHANGED << dirs, files, charWidth, pageVars >>

\* loadImage resolves with the file's content as it is when it is read; a
\* truncated file does not decode
LoadImageOk(c) ==
    /\ running = 0
    /\ calls[c].pc = "load"
    /\ gradientImagePath \in DOMAIN files
    /\ files[gradientImagePath] # TruncatedFile
    /\ calls' = [calls EXCEPT ![c].img = files[gradientImagePath],
                              ![c].pc = "background",
                              ![c].log = Append(@, << "loadImage", 0 >>)]
    /\ running' = c
    /\ UNCHANGED << dirs, files, charWidth, pageVars >>

\* loadImage's rejection caught: the call goes on without a background
LoadImageFailContinue(c) ==
    /\ running = 0
    /\ calls[c].pc = "load"
    /\ calls' = [calls EXCEPT ![c].pc = "background",
                              ![c].err = "AssetLoadFailure"]
    /\ running' = c
    /\ UNCHANGED << dirs, files, charWidth, pageVars >>

\* loadImage rejects: the file is absent, or reading or decoding it fails;
\* the await rethrows and the call is rejected
LoadImageFail(c) ==
    /\ running = 0
    /\ calls[c].pc = "load"
    /\ calls' = [calls EXCEPT ![c].pc = "failed",
                              ![c].err = "AssetLoadFailure"]
    /\ UNCHANGED << dirs, files, running, charWidth, pageVars >>

\* fillRect with the linear gradient, or drawImage of the loaded image
DrawBackground(c) ==
    /\ running = c
    /\ calls[c].pc = "background"
    /\ calls' = [calls EXCEPT
                    ![c].canvas.bg =
                        IF calls[c].mode = "solid"
                        THEN [kind |-> "gradient",
                              rect |-> << 10, 10, canvasWidth - 20, canvasHeight - 20 >>]
                        ELSE [kind |-> "image", img |-> calls[c].img,
                              rect |-> << 0, 0, canvasWidth, canvasHeight >>],
                    ![c].log = Append(@, << "background", 0 >>),
                    ![c].pc = "layout"]
    /\ UNCHANGED << dirs, files, running, charWidth, pageVars >>

\* the wrap text logic and the y of the first line
Layout(c) ==
    /\ running = c
    /\ calls[c].pc = "layout"
    /\ LET lines == IF calls[c].mode = "solid"
                    THEN wrapText(calls[c].title)
                    ELSE wrapTextWithImage(calls[c].title)
       IN  calls' = [calls EXCEPT
                        ![c].words = split(calls[c].title, " "),
                        ![c].lines = lines,
                        ![c].log = Append(@, << "layout", 0 >>),
                        ![c].y = IF calls[c].mode = "solid"
                                 THEN startY(Len(lines))
                                 ELSE startYWithImage(Len(lines)),
                        ![c].drawn = 0,
                        ![c].pc = "draw"]
    /\ UNCHANGED << dirs, files, running, charWidth, pageVars >>

\* a drawing loop that takes the lines from the last to the first
DrawLineReversed(c) ==
    /\ running = c
    /\ calls[c].pc = "draw"
    /\ calls[c].drawn < Len(calls[c].lines)
    /\ calls' = [calls EXCEPT
                    ![c].canvas.text =
                        Append(@, [text |-> calls[c].lines[Len(calls[c].lines) - calls[c].drawn],
                                   x |-> canvasWidth \div 2,
                                   y |-> calls[c].y]),
                    ![c].y = @ + lineHeight,
                    ![c].log = Append(@, << "fillText", Len(calls[c].lines) - calls[c].drawn - 1 >>),
                    ![c].drawn = @ + 1]
    /\ UNCHANGED << dirs, files, running, charWidth, pageVars >>

\* a drawing loop that keeps y inside the canvas
DrawLineClamped(c) ==
    /\ running = c
    /\ calls[c].pc = "draw"
    /\ calls[c].drawn < Len(calls[c].lines)
    /\ calls' = [calls EXCEPT
                    ![c].canvas.text =
                        Append(@, [text |-> calls[c].lines[calls[c].drawn + 1],
                                   x |-> canvasWidth \div 2,
                                   y |-> IF calls[c].y < 0 THEN 0
                                         ELSE IF calls[c].y > canvasHeight
                                              THEN canvasHeight
                                              ELSE calls[c].y]),
                    ![c].y = @ + lineHeight,
                    ![c].log = Append(@, << "fillText", calls[c].drawn >>),
                    ![c].drawn = @ + 1]
    /\ UNCHANGED << dirs, files, running, charWidth, pageVars >>

\* one turn of the drawing loop: fillText(line, canvasWidth / 2, y)
DrawLine(c) ==
    /\ running = c
    /\ calls[c].pc = "draw"
    /\ calls[c].drawn < Len(calls[c].lines)
    /\ calls' = [calls EXCEPT
                    ![c].canvas.text =
                        Append(@, [text |-> calls[c].lines[calls[c].drawn + 1],
                                   x |-> canvasWidth \div 2,
                                   y |-> calls[c].y]),
                    ![c].y = @ + lineHeight,
                    ![c].log = Append(@, << "fillText", calls[c].drawn >>),
                    ![c].drawn = @ + 1]
    /\ UNCHANGED << dirs, files, running, charWidth, pageVars >>

\* outputPath, canvas.toBuffer and the call of writeFile, which is awaited
Encode(c) ==
    /\ running = c
    /\ calls[c].pc = "draw"
    /\ calls[c].drawn = Len(calls[c].lines)
    /\ calls' = [calls EXCEPT
                    ![c].outputPath = outputPathOf(calls[c].mode, calls[c].title),
                    ![c].buffer = toBuffer(calls[c].canvas),
                    ![c].log = Append(@, << "toBuffer", 0 >>),
                    ![c].pc = "write"]
    /\ running' = 0
    /\ UNCHANGED << dirs, files, charWidth, pageVars >>

\* a write that empties the output directory before it writes its file
WriteFileOkCleaning(c) ==
    /\ running = 0
    /\ calls[c].pc = "write"
    /\ Writable(calls[c].outputPath)
    /\ files' = (calls[c].outputPath :> calls[c].buffer) @@
                    [p \in { q \in DOMAIN files : Parent(q) # Parent(calls[c].outputPath) }
                        |-> files[p]]
    /\ calls' = [calls EXCEPT ![c].writes = @ + 1,
                              ![c].landed = NextRank,
                              ![c].log = Append(@, << "writeFile", 0 >>),
                              ![c].pc = "written"]
    /\ UNCHANGED << dirs, running, charWidth, pageVars >>

\* a write that leaves an existing file as it is (the first writer wins)
WriteFileOkKeepExisting(c) ==
    /\ running = 0
    /\ calls[c].pc = "write"
    /\ Writable(calls[c].outputPath)
    /\ files' = files @@ (calls[c].outputPath :> calls[c].buffer)
    /\ calls' = [calls EXCEPT ![c].writes = @ + 1,
                              ![c].landed = NextRank,
                              ![c].log = Append(@, << "writeFile", 0 >>),
                              ![c].pc = "written"]
    /\ UNCHANGED << dirs, running, charWidth, pageVars >>

\* writeFile creates or replaces the file and resolves
WriteFileOk(c) ==
    /\ running = 0
    /\ calls[c].pc = "write"
    /\ Writable(calls[c].outputPath)
    /\ files' = (calls[c].outputPath :> calls[c].buffer) @@ files
    /\ calls' = [calls EXCEPT ![c].writes = @ + 1,
                              ![c].landed = NextRank,
                              ![c].log = Append(@, << "writeFile", 0 >>),
                              ![c].pc = "written"]
    /\ UNCHANGED << dirs, running, charWidth, pageVars >>

\* writeFile's rejection caught: the call goes on to its return statement
WriteFileFailSwallowed(c) ==
    /\ running = 0
    /\ calls[c].pc = "write"
    /\ UNCHANGED files
    /\ calls' = [calls EXCEPT ![c].writes = @ + 1,
                              ![c].pc = "written",
                              ![c].err = "FileWriteFailure"]
    /\ UNCHANGED << dirs, running, charWidth, pageVars >>

\* writeFile rejects: the file cannot be opened (always so when its
\* directory is missing), or the write fails after the file was opened and
\* truncated; the await rethrows and the call is rejected
WriteFileFail(c) ==
    /\ running = 0
    /\ calls[c].pc = "write"
    /\ \E opened \in BOOLEAN :
          /\ opened => Writable(calls[c].outputPath)
          /\ files' = IF opened
                      THEN (calls[c].outputPath :> TruncatedFile) @@ files
                      ELSE files
    /\ calls' = [calls EXCEPT ![c].writes = @ + 1,
                              ![c].pc = "failed",
                              ![c].err = "FileWriteFailure"]
    /\ UNCHANGED << dirs, running, charWidth, pageVars >>

\* a return statement that does not wait for writeFile
ReturnWithoutAwait(c) ==
    /\ running = 0
    /\ calls[c].pc \in { "write", "written" }
    /\ calls' = [calls EXCEPT
                    ![c].ret = IF calls[c].mode = "solid"
                               THEN returnedPath(calls[c].title)
                               ELSE returnedPathWithImage(calls[c].title),
                    ![c].log = Append(@, << "return", 0 >>),
                    ![c].pc = "returned"]
    /\ UNCHANGED << dirs, files, running, charWidth, pageVars >>

\* the return statement after the awaited writeFile
Return(c) ==
    /\ running = 0
    /\ calls[c].pc = "written"
    /\ calls' = [calls EXCEPT
                    ![c].ret = IF calls[c].mode = "solid"
                               THEN returnedPath(calls[c].title)
                               ELSE returnedPathWithImage(calls[c].title),
                    ![c].log = Append(@, << "return", 0 >>),
                    ![c].pc = "returned"]
    /\ UNCHANGED << dirs, files, running, charWidth, pageVars >>

Step(c) ==
    \/ LoadImageOk(c)
    \/ LoadImageFail(c)
    \/ DrawBackground(c)
    \/ Layout(c)
    \/ DrawLine(c)
    \/ Encode(c)
    \/ WriteFileOk(c)
    \/ WriteFileFail(c)
    \/ Return(c)

\* overlapping calls, few titles
Next ==
    \/ \E c \in 1..MaxConcurrent, mode \in Modes, title \in FewTitles :
           Invoke(c, mode, title)
    \/ \E c \in Calls : Step(c)

Spec == Init /\ [][Next]_vars

\* has every call that was invoked been settled
Quiet == \A c \in Calls : calls[c].pc \in { "idle", "returned", "failed" }

\* one call after the other, few titles
NextSeq ==
    \/ \E c \in Calls, mode \in Modes, title \in FewTitles :
           Quiet /\ Invoke(c, mode, title)
    \/ \E c \in Calls : Step(c)

SpecSeq == Init /\ [][NextSeq]_vars

\* one call, every title
NextTitles ==
    \/ \E mode \in Modes, title \in AllTitles : Invoke(1, mode, title)
    \/ \E c \in Calls : Step(c)

SpecTitles == Init /\ [][NextTitles]_vars

(***************************************************************************)
(* The specifications of the pages.                                        *)
(***************************************************************************)
\* no render call is made
InitThumbnailsIdle ==
    /\ dirs = { << >>, pathJoin(<< Cwd >>), PublicDir, ThumbnailsDir }
    /\ files = (gradientImagePath :> AssetImage)
    /\ calls = [c \in Calls |-> IdleCall]
    /\ running = 0
    /\ charWidth = 20

InitSiteHeaderOnly ==
    /\ InitThumbnailsIdle
    /\ InitSiteHeader
    /\ InitSitemapIdle

NextSiteHeader ==
    \/ ClickMenuButton
    \/ MobileNavOnOpenChange

SpecSiteHeader == InitSiteHeaderOnly /\ [][NextSiteHeader]_vars

InitSitemapOnly ==
    /\ InitThumbnailsIdle
    /\ InitSiteHeader
    /\ posts \in { ps \in PostLists(MaxPosts) : HasDistinctSlugs(ps) }
    /\ sitemapResult = NotCalled

NextSitemap == CallSitemap

SpecSitemap == InitSitemapOnly /\ [][NextSitemap]_vars

(***************************************************************************)
(* What the claims speak of.                                               *)
(***************************************************************************)
EndsWith(cs, suffix) ==
    /\ Len(cs) >= Len(suffix)
    /\ SubSeq(cs, Len(cs) - Len(suffix) + 1, Len(cs)) = suffix

IsPrefix(p, q) == Len(p) <= Len(q) /\ SubSeq(q, 1, Len(p)) = p

\* the file a public path names: the path, its '.' and '..' segments
\* resolved without leaving the site's root, inside public/
ServedFile(url) == PublicDir \o normalizeSegments(split(url, "/"), << >>)

\* the title lower-cased, every character outside [a-z0-9] replaced by '_',
\* followed by '.png'
SanitizedName(title) ==
    [i \in DOMAIN title |->
        IF LowerChar(title[i]) \in Range(LowerCase) \cup Digits
        THEN LowerChar(title[i])
        ELSE "_"] \o DotPng

\* has the call written its file
HasWritten(c) == calls[c].pc \in { "written", "returned" }

\* has the call computed its layout
HasLayout(c) ==
    \/ calls[c].pc \in { "draw", "write", "written", "returned" }
    \/ calls[c].pc = "failed" /\ calls[c].err = "FileWriteFailure"

\* has the call drawn all its lines
HasDrawn(c) ==
    \/ calls[c].pc \in { "write", "written", "returned" }
    \/ calls[c].pc = "failed" /\ calls[c].err = "FileWriteFailure"

\* C1: in both modes the file written is public/thumbnails/<name>.png with
\* <name> the title lower-cased and every character outside [a-z0-9]
\* replaced by '_'.
C1_SanitizedFileName ==
    \A c \in Calls :
        HasWritten(c) =>
            calls[c].outputPath = Append(ThumbnailsDir, Str(SanitizedName(calls[c].title)))

\* C2: every file a render call writes is a direct child of
\* public/thumbnails, whatever the title.
C2_WritesOnlyInThumbnails ==
    \A p \in DOMAIN files :
        files[p] # AssetImage => Parent(p) = ThumbnailsDir

\* C3: a call for a non-empty title that returns gives a path ending in
\* '.png' under the thumbnails directory, and a file exists at that path.
C3_ReturnedPathExists ==
    \A c \in Calls :
        (calls[c].pc = "returned" /\ calls[c].title # << >>) =>
            /\ EndsWith(calls[c].ret, DotPng)
            /\ IsPrefix(ThumbnailsDir, ServedFile(calls[c].ret))
            /\ ServedFile(calls[c].ret) \in DOMAIN files

\* C4: the returned path is '/thumbnails/' followed by the file name given to
\* path.join, and it names exactly the file that was written.
C4_ReturnedPathIsWrittenFile ==
    \A c \in Calls :
        calls[c].pc = "returned" =>
            /\ calls[c].ret = ThumbnailsUrlPrefix \o
                                 (IF calls[c].mode = "solid"
                                  THEN fileName(calls[c].title)
                                  ELSE fileNameWithImage(calls[c].title))
            /\ ServedFile(calls[c].ret) = calls[c].outputPath

\* C5: for the empty title the layout is exactly one line, the empty string,
\* and that one blank line is what is drawn.
C5_EmptyTitleOneEmptyLine ==
    \A c \in Calls :
        (calls[c].pc # "idle" /\ calls[c].title = << >>) =>
            /\ HasLayout(c) => calls[c].lines = << << >> >>
            /\ HasDrawn(c) =>
                  /\ Len(calls[c].canvas.text) = 1
                  /\ calls[c].canvas.text[1].text = << >>

C5_Witness ==
    \E c \in Calls :
        /\ calls[c].title = << >>
        /\ calls[c].pc = "returned"
        /\ calls[c].lines = << << >> >>

\* C6: a call whose write failed is rejected: the write was attempted once,
\* no path is returned and the error is the call's outcome; no call ever
\* attempts its write twice.
C6_WriteFailurePropagates ==
    \A c \in Calls :
        /\ calls[c].writes <= 1
        /\ calls[c].err = "FileWriteFailure" =>
              /\ calls[c].pc = "failed"
              /\ calls[c].writes = 1
              /\ calls[c].ret = NoPath

C6_Witness ==
    \E c \in Calls :
        /\ calls[c].err = "FileWriteFailure"
        /\ calls[c].pc = "failed"
        /\ calls[c].writes = 1
        /\ ThumbnailsDir \in dirs

\* C7: in image mode a call whose background image is absent or cannot be
\* loaded is rejected at that point, and its failure changes no file: it
\* never writes and returns no path.
C7_AssetFailureChangesNoFile ==
    /\ [](\A c \in Calls :
              calls[c].err = "AssetLoadFailure" =>
                  /\ calls[c].mode = "image"
                  /\ calls[c].pc = "failed"
                  /\ calls[c].writes = 0
                  /\ calls[c].ret = NoPath)
    /\ [][\A c \in Calls :
              (calls[c].pc = "load" /\ calls'[c] # calls[c]) =>
                  /\ (\/ gradientImagePath \notin DOMAIN files
                      \/ files[gradientImagePath] = TruncatedFile) =>
                         calls'[c].err = "AssetLoadFailure"
                  /\ calls'[c].err = "AssetLoadFailure" =>
                         files' = files /\ dirs' = dirs]_vars

C7_Witness ==
    \E c \in Calls :
        /\ calls[c].mode = "image"
        /\ calls[c].err = "AssetLoadFailure"
        /\ calls[c].pc = "failed"
        /\ gradientImagePath \notin DOMAIN files
        /\ \E d \in Calls : d # c /\ calls[d].pc = "returned"

\* C8: after any sequence of successful render calls the thumbnails
\* directory holds exactly one file per distinct derived file name.
C8_OneFilePerDerivedName ==
    (\A c \in Calls : calls[c].pc \in { "idle", "returned" }) =>
        { p \in DOMAIN files : Parent(p) = ThumbnailsDir }
            = { Append(ThumbnailsDir,
                       Str(IF calls[c].mode = "solid"
                           THEN fileName(calls[c].title)
                           ELSE fileNameWithImage(calls[c].title))) :
                c \in { d \in Calls : calls[d].pc = "returned" } }

\* C9: two calls with the same title and mode give the same lines, the same
\* positions, the same path and the same bytes, whatever ran before or
\* between them.
C9_SameCallSameOutput ==
    \A c, d \in Calls :
        (/\ calls[c].pc = "returned"
         /\ calls[d].pc = "returned"
         /\ calls[c].mode = calls[d].mode
         /\ calls[c].title = calls[d].title) =>
            /\ calls[c].lines = calls[d].lines
            /\ calls[c].canvas.text = calls[d].canvas.text
            /\ calls[c].outputPath = calls[d].outputPath
            /\ calls[c].ret = calls[d].ret
            /\ calls[c].buffer = calls[d].buffer

\* C10 as stated: calls for different titles write distinct files, and each
\* file ends with the content of the call for its title.
C10_DifferentTitlesDistinctFiles ==
    \A c, d \in Calls :
        (/\ c # d
         /\ calls[c].pc = "returned"
         /\ calls[d].pc = "returned"
         /\ calls[c].title # calls[d].title) =>
            /\ calls[c].outputPath # calls[d].outputPath
            /\ files[calls[c].outputPath] = toBuffer(calls[c].canvas)
            /\ files[calls[d].outputPath] = toBuffer(calls[d].canvas)

\* C10 as amended: a call that has returned, and whose output path no other
\* call shares, finds its file holding the content it produced, under every
\* interleaving with the other calls.
C10_DistinctPathsNoInterference ==
    \A c \in Calls :
        (/\ calls[c].pc = "returned"
         /\ \A d \in Calls \ { c } :
                calls[d].pc # "idle" =>
                    outputPathOf(calls[d].mode, calls[d].title) # calls[c].outputPath) =>
            /\ calls[c].outputPath \in DOMAIN files
            /\ files[calls[c].outputPath] = toBuffer(calls[c].canvas)

\* call 2 has returned while call 1, invoked before it, still awaits its
\* write to another path
C10_Witness ==
    /\ calls[2].pc = "returned"
    /\ calls[1].pc = "written"
    /\ calls[1].title # calls[2].title
    /\ calls[1].outputPath # calls[2].outputPath
    /\ files[calls[2].outputPath] = toBuffer(calls[2].canvas)
    /\ files[calls[1].outputPath] = toBuffer(calls[1].canvas)

\* the calls made so far whose output file is the one at path
WritersOf(path) ==
    { d \in Calls : /\ calls[d].pc # "idle"
                    /\ outputPathOf(calls[d].mode, calls[d].title) = path }

LettersAndDigits ==
    Digits \cup { LowerCase[i] : i \in 1..26 } \cup { UpperCase[i] : i \in 1..26 }

\* the two forms of each letter, in both orders
CasePairs ==
    { << LowerCase[i], UpperCase[i] >> : i \in 1..26 }
        \cup { << UpperCase[i], LowerCase[i] >> : i \in 1..26 }

\* a letter or a digit
IsLetterOrDigit(ch) == ch \in LettersAndDigits

\* the same character, or the lower-case and upper-case form of one letter
SameUpToCase(ch1, ch2) == ch1 = ch2 \/ << ch1, ch2 >> \in CasePairs

\* same length and, position by position, the same letter or digit up to
\* case or two characters outside [a-zA-Z0-9]
SameClass(t1, t2) ==
    /\ Len(t1) = Len(t2)
    /\ \A i \in 1..Len(t1) :
          IF IsLetterOrDigit(t1[i]) \/ IsLetterOrDigit(t2[i])
          THEN /\ IsLetterOrDigit(t1[i])
               /\ IsLetterOrDigit(t2[i])
               /\ SameUpToCase(t1[i], t2[i])
          ELSE TRUE

\* for each title, the titles of its class
ClassOf == [t \in AllTitles |-> { t2 \in AllTitles : SameClass(t, t2) }]

\* the output path generateThumbnailWithImage derives for each title
ImagePaths == [t \in AllTitles |-> outputPathOf("image", t)]

\* for each of these paths, the titles it is derived for
TitlesOfImagePath ==
    [p \in { ImagePaths[t] : t \in AllTitles } |->
        { t \in AllTitles : ImagePaths[t] = p }]

\* C12: the output path of a generateThumbnailWithImage call is also the
\* path of another title exactly when the two titles have the same length
\* and agree position by position up to case and up to which character
\* outside [a-zA-Z0-9] stands there; "A/B" and "A B" both give a_b, while
\* "A/B:C?" and "a b c" give different paths
C12_CollideExactlyWhenSameClass ==
    \A c \in Calls :
        ( calls[c].mode = "image" /\ calls[c].pc \in { "write", "written", "returned" } ) =>
            /\ calls[c].outputPath \in DOMAIN TitlesOfImagePath
            /\ TitlesOfImagePath[calls[c].outputPath] = ClassOf[calls[c].title]
            /\ calls[c].title = << "A", "/", "B" >> =>
                   /\ calls[c].outputPath =
                          ThumbnailsDir \o << "a_b.png" >>
                   /\ ImagePaths[<< "A", " ", "B" >>] = calls[c].outputPath
            /\ calls[c].title = << "A", "/", "B", ":", "C", "?" >> =>
                   ImagePaths[<< "a", " ", "b", " ", "c" >>] # calls[c].outputPath

\* generateThumbnailWithImage("A/B") has written the file "A B" also maps
\* to, and "a_b", which differs from it in case and punctuation, maps to it too
C12_Witness ==
    /\ calls[1].mode = "image"
    /\ calls[1].pc = "returned"
    /\ calls[1].title = << "A", "/", "B" >>
    /\ calls[1].outputPath \in DOMAIN files
    /\ ImagePaths[<< "A", " ", "B" >>] = calls[1].outputPath
    /\ ImagePaths[<< "a", "_", "b" >>] = calls[1].outputPath
    /\ ImagePaths[<< "a", "B" >>] # calls[1].outputPath

RECURSIVE JoinWords(_)
\* the words with one space between neighbours
JoinWords(ws) ==
    IF Len(ws) = 0 THEN << >>
    ELSE IF Len(ws) = 1 THEN ws[1]
    ELSE ws[1] \o << " " >> \o JoinWords(Tail(ws))

RECURSIVE GreedyEnd(_, _, _)
\* the index of the last word of the greedy line that starts at word from
\* and reaches word to so far: the next word joins the line exactly when
\* the line with a space and that word measures strictly below 760
GreedyEnd(words, from, to) ==
    IF /\ to < Len(words)
       /\ measureText(JoinWords(SubSeq(words, from, to + 1))) < 800 - 2 * 20
    THEN GreedyEnd(words, from, to + 1)
    ELSE to

RECURSIVE GreedyLines(_, _)
\* the lines of the reference greedy algorithm for the words from index from
GreedyLines(words, from) ==
    IF from > Len(words)
    THEN << >>
    ELSE LET to == GreedyEnd(words, from, from)
         IN  << JoinWords(SubSeq(words, from, to)) >>
                 \o GreedyLines(words, to + 1)

\* C13: the layout of a call is that of the reference greedy algorithm with
\* maximum width 760 and a strict comparison, in line count and in line
\* contents
C13_LayoutIsGreedy ==
    \A c \in Calls :
        HasLayout(c) => calls[c].lines = GreedyLines(calls[c].words, 1)

\* generateThumbnail("a b c d e") with 152 per character: "a b" measures
\* 456 and is kept, "a b c" measures exactly 760 and is not
C13_Witness ==
    /\ calls[1].mode = "solid"
    /\ calls[1].pc = "returned"
    /\ charWidth = 152
    /\ calls[1].title = << "a", " ", "b", " ", "c", " ", "d", " ", "e" >>
    /\ measureText(<< "a", " ", "b", " ", "c" >>) = 760
    /\ calls[1].lines =
           << << "a", " ", "b" >>, << "c", " ", "d" >>, << "e" >> >>

\* C14: every line of a computed layout measures at most 760, lines of a
\* single word and the first line included
C14_EveryLineFits ==
    \A c \in Calls :
        HasLayout(c) =>
            \A i \in 1..Len(calls[c].lines) :
                measureText(calls[c].lines[i]) <= 800 - 2 * 20

\* the whitespace characters of the titles
Whitespace == { " ", "\t", "\n" }

RECURSIVE NonWhitespaceRuns(_, _)
\* the maximal runs of non-whitespace characters of cs, run being the run
\* that is being read
NonWhitespaceRuns(cs, run) ==
    IF cs = << >>
    THEN IF run = << >> THEN << >> ELSE << run >>
    ELSE IF Head(cs) \in Whitespace
         THEN (IF run = << >> THEN << >> ELSE << run >>)
                  \o NonWhitespaceRuns(Tail(cs), << >>)
         ELSE NonWhitespaceRuns(Tail(cs), Append(run, Head(cs)))

\* C15 as claimed: the words of a layout are the maximal runs of
\* non-whitespace characters of the title, so no word is empty and no word
\* holds a whitespace character (stated for the titles that are not empty)
C15_WordsAreNonWhitespaceRuns ==
    \A c \in Calls :
        ( HasLayout(c) /\ calls[c].title # << >> ) =>
            /\ calls[c].words = NonWhitespaceRuns(calls[c].title, << >>)
            /\ \A i \in 1..Len(calls[c].words) :
                   /\ calls[c].words[i] # << >>
                   /\ Range(calls[c].words[i]) \cap Whitespace = { }

\* the number of space characters of cs
CountSpaces(cs) == Cardinality({ i \in 1..Len(cs) : cs[i] = " " })

\* C15 as amended: the title is cut at every single space character: a
\* title with n spaces gives n + 1 words, no word holds a space, and the
\* words joined with single spaces give the title back
C15_WordsAreCutAtEverySpace ==
    \A c \in Calls :
        HasLayout(c) =>
            /\ Len(calls[c].words) = CountSpaces(calls[c].title) + 1
            /\ \A i \in 1..Len(calls[c].words) : " " \notin Range(calls[c].words[i])
            /\ JoinWords(calls[c].words) = calls[c].title

\* a title that starts with two spaces has been laid out: its first two
\* words are empty
C15_Witness ==
    /\ calls[1].pc = "returned"
    /\ calls[1].title = << " ", " ", "a" >>
    /\ calls[1].words = << << >>, << >>, << "a" >> >>

\* does every prefix of the title that ends at a word boundary measure
\* below 760
WholeTitleFits(words) ==
    \A k \in 1..Len(words) :
        measureText(JoinWords(SubSeq(words, 1, k))) < 800 - 2 * 20

\* C16: when every prefix of the title that ends at a word boundary
\* measures below the maximum, the layout is one line, the whole title
C16_FittingTitleIsOneLine ==
    \A c \in Calls :
        ( HasLayout(c) /\ WholeTitleFits(calls[c].words) ) =>
            calls[c].lines = << calls[c].title >>

\* "Hello World" at 20 per character measures 220 and is laid out as the
\* one line "Hello World"
C16_Witness ==
    /\ calls[1].mode = "solid"
    /\ calls[1].pc = "returned"
    /\ charWidth = 20
    /\ calls[1].title =
           << "H", "e", "l", "l", "o", " ", "W", "o", "r", "l", "d" >>
    /\ Len(calls[1].words) = 2
    /\ WholeTitleFits(calls[1].words)
    /\ calls[1].lines = << calls[1].title >>

\* C17: the line in progress is committed after the loop: a layout has at
\* least one line and at most as many lines as the title has
\* space-separated words, and its last line ends with the last word of the
\* title (it is the last words of the title joined with spaces)
C17_LastLineCommitted ==
    \A c \in Calls :
        HasLayout(c) =>
            LET words == calls[c].words
                lines == calls[c].lines
            IN  /\ Len(lines) >= 1
                /\ Len(lines) <= Len(words)
                /\ \E k \in 1..Len(words) :
                       lines[Len(lines)] = JoinWords(SubSeq(words, k, Len(words)))

\* generateThumbnailWithImage("Hi you 2") at 380 per character: three
\* words, three lines, and the last line is the last word
C17_Witness ==
    /\ calls[1].mode = "image"
    /\ calls[1].pc = "returned"
    /\ charWidth = 380
    /\ calls[1].title = << "H", "i", " ", "y", "o", "u", " ", "2" >>
    /\ Len(calls[1].words) = 3
    /\ Len(calls[1].lines) = 3
    /\ calls[1].lines[3] = << "2" >>

\* C18: with n lines in the layout, line i (counted from 0) is drawn at
\* y = (400 - 50 * n) / 2 + 25 + 50 * i; consecutive lines are 50 apart
\* and, once all are drawn, the y of the first and of the last line add up
\* to the canvas height 400
C18_LinesVerticallyCentered ==
    \A c \in Calls :
        HasLayout(c) =>
            LET n == Len(calls[c].lines)
                text == calls[c].canvas.text
            IN  /\ \A j \in 1..Len(text) :
                       text[j].y = (400 - 50 * n) \div 2 + 25 + 50 * (j - 1)
                /\ \A j \in 1..(Len(text) - 1) : text[j + 1].y - text[j].y = 50
                /\ HasDrawn(c) =>
                       /\ Len(text) = n
                       /\ text[1].y + text[n].y = 400

\* generateThumbnail("Hi you 2") at 152 per character has drawn its three
\* lines at 150, 200 and 250
C18_Witness ==
    /\ calls[1].mode = "solid"
    /\ calls[1].pc = "returned"
    /\ charWidth = 152
    /\ calls[1].title = << "H", "i", " ", "y", "o", "u", " ", "2" >>
    /\ Len(calls[1].canvas.text) = 3
    /\ calls[1].canvas.text[1].y = 150
    /\ calls[1].canvas.text[2].y = 200
    /\ calls[1].canvas.text[3].y = 250

\* in log, does every step of a kind of later come after a step of kind
\* earlier
OnlyAfter(log, later, earlier) ==
    \A i \in 1..Len(log) :
        log[i][1] \in later =>
            \E j \in 1..(i - 1) : log[j][1] = earlier

\* the number of steps of kind op among the first k steps of log
CountBefore(log, op, k) ==
    Cardinality({ j \in 1..(k - 1) : log[j][1] = op })

\* the steps after the layout are in the order draw, encode, write, return:
\* the canvas is encoded only after every line is drawn, the file is
\* written only after the encoding, and the path is returned only after
\* the write has completed
EncodeWriteReturnInOrder(c) ==
    LET log == calls[c].log
    IN  /\ \A i \in 1..Len(log) :
               log[i][1] = "toBuffer" =>
                   /\ CountBefore(log, "fillText", i) = Len(calls[c].lines)
                   /\ \A j \in (i + 1)..Len(log) : log[j][1] # "fillText"
        /\ OnlyAfter(log, { "writeFile" }, "toBuffer")
        /\ OnlyAfter(log, { "return" }, "writeFile")
        /\ calls[c].ret # NoPath =>
               /\ calls[c].landed > 0
               /\ log[Len(log)][1] = "return"

\* C19 as claimed: within a call nothing is drawn, background included,
\* before the layout is computed, and the steps after it are in order
C19_NothingDrawnBeforeLayout ==
    \A c \in Calls :
        /\ OnlyAfter(calls[c].log, { "background", "fillText" }, "layout")
        /\ EncodeWriteReturnInOrder(c)

\* C19 as amended: within a call no text line is drawn before the layout
\* is computed (the background is), and the steps after it are in order
C19_NoTextDrawnBeforeLayout ==
    \A c \in Calls :
        /\ OnlyAfter(calls[c].log, { "fillText" }, "layout")
        /\ EncodeWriteReturnInOrder(c)

\* generateThumbnailWithImage("a b") at 380 per character has returned
\* while another call was made: its steps, in order
C19_Witness ==
    /\ calls[1].pc = "returned"
    /\ calls[2].pc # "idle"
    /\ calls[1].mode = "image"
    /\ calls[1].title = << "a", " ", "b" >>
    /\ calls[1].log =
           << << "createCanvas", 0 >>, << "loadImage", 0 >>,
              << "background", 0 >>, << "layout", 0 >>,
              << "fillText", 0 >>, << "fillText", 1 >>,
              << "toBuffer", 0 >>, << "writeFile", 0 >>, << "return", 0 >> >>

\* the steps of kind op of log, in order
StepsOf(log, op) == SelectSeq(log, LAMBDA e : e[1] = op)

\* C20: in both modes the background is drawn before any text line and
\* never after one, and the text lines are drawn in the order of the
\* layout, line 0 first, each line once
C20_BackgroundThenLinesInOrder ==
    \A c \in Calls :
        LET log == calls[c].log
            texts == StepsOf(log, "fillText")
        IN  /\ OnlyAfter(log, { "fillText" }, "background")
            /\ \A i \in 1..Len(log) :
                   log[i][1] = "background" =>
                       \A j \in 1..(i - 1) : log[j][1] # "fillText"
            /\ Len(StepsOf(log, "background")) <= 1
            /\ \A k \in 1..Len(texts) : texts[k][2] = k - 1
            /\ Len(calls[c].canvas.text) = Len(texts)
            /\ \A k \in 1..Len(texts) :
                   calls[c].canvas.text[k].text = calls[c].lines[k]
            /\ HasDrawn(c) => Len(texts) = Len(calls[c].lines)

\* generateThumbnail("a b") at 380 per character has drawn its gradient
\* and then its two lines, "a" first
C20_Witness ==
    /\ calls[1].mode = "solid"
    /\ calls[1].pc = "write"
    /\ calls[1].title = << "a", " ", "b" >>
    /\ calls[1].canvas.bg.kind = "gradient"
    /\ StepsOf(calls[1].log, "fillText") = << << "fillText", 0 >>, << "fillText", 1 >> >>
    /\ calls[1].canvas.text[1].text = << "a" >>
    /\ calls[1].canvas.text[2].text = << "b" >>

\* the lines the other function computes for the title
LinesOfOther(mode, title) ==
    IF mode = "solid" THEN wrapTextWithImage(title) ELSE wrapText(title)

\* the y the other function gives the first of n lines
StartYOfOther(mode, n) ==
    IF mode = "solid" THEN startYWithImage(n) ELSE startY(n)

\* C21: the two functions implement the same layout: the lines a call has
\* computed and the text, x and y of every line it has drawn are those the
\* other function gives for the same title and the same measurement
C21_SameLayoutInBothModes ==
    \A c \in Calls :
        HasLayout(c) =>
            LET other == LinesOfOther(calls[c].mode, calls[c].title)
                text == calls[c].canvas.text
            IN  /\ calls[c].lines = other
                /\ \A j \in 1..Len(text) :
                       /\ text[j].text = other[j]
                       /\ text[j].x = canvasWidth \div 2
                       /\ text[j].y = StartYOfOther(calls[c].mode, Len(other))
                                          + (j - 1) * lineHeight
                /\ HasDrawn(c) => Len(text) = Len(other)

\* generateThumbnailWithImage("a b c d e") at 152 per character has drawn
\* the three lines generateThumbnail computes, from the y it starts at
C21_Witness ==
    /\ calls[1].mode = "image"
    /\ calls[1].pc = "returned"
    /\ charWidth = 152
    /\ calls[1].title = << "a", " ", "b", " ", "c", " ", "d", " ", "e" >>
    /\ Len(calls[1].lines) = 3
    /\ calls[1].lines = wrapText(calls[1].title)
    /\ calls[1].canvas.text[1].y = startY(3)
    /\ calls[1].canvas.bg.kind = "image"

\* is the file at path p, or its presence, changed by the step
FileChanged(p) ==
    \/ (p \in DOMAIN files) # (p \in DOMAIN files')
    \/ p \in DOMAIN files /\ p \in DOMAIN files' /\ files[p] # files'[p]

\* C22: a call that succeeds changes exactly one file, the one at the path
\* derived from its title; every other file, the background asset
\* public/gradient-bg.png included, is left as it is, and a call that fails
\* changes no file
C22_OnlyOwnFileChanges ==
    [][ /\ ~ FileChanged(gradientImagePath)
        /\ \A p \in DOMAIN files \cup DOMAIN files' :
               FileChanged(p) =>
                   \E c \in Calls :
                       /\ calls[c].pc = "write"
                       /\ calls'[c].pc = "written"
                       /\ p = outputPathOf(calls[c].mode, calls[c].title)
        /\ \A c \in Calls :
               ( calls[c].pc = "write" /\ calls'[c].pc = "written" ) =>
                   /\ calls[c].outputPath \in DOMAIN files'
                   /\ files'[calls[c].outputPath] = calls[c].buffer
        /\ \A c \in Calls :
               ( calls[c].pc # "failed" /\ calls'[c].pc = "failed" ) =>
                   files' = files
      ]_vars

\* C23: the output directory public/thumbnails exists before the first
\* write: once a call has got past its writeFile, with or without success,
\* the directory exists, and a call is not rejected by writeFile while the
\* directory is missing
C23_OutputDirectoryEnsured ==
    \A c \in Calls :
        calls[c].writes > 0 =>
            /\ ThumbnailsDir \in dirs
            /\ calls[c].pc = "failed" => Writable(calls[c].outputPath)

\* C24: the wrap loses and reorders nothing: the lines of a layout joined
\* in order with single spaces give the title back
C24_LinesJoinToTitle ==
    \A c \in Calls :
        HasLayout(c) => JoinWords(calls[c].lines) = calls[c].title

\* generateThumbnail(" a ") at 380 per character: an empty line, "a" and an
\* empty line, which joined with spaces are the title
C24_Witness ==
    /\ calls[1].mode = "solid"
    /\ calls[1].pc = "returned"
    /\ charWidth = 380
    /\ calls[1].title = << " ", "a", " " >>
    /\ calls[1].lines = << << >>, << "a" >>, << >> >>
    /\ JoinWords(calls[1].lines) = calls[1].title

\* C25: only a line of one word can overflow: a line of two or more words,
\* that is a line with a space in it, measures strictly below 760, and a
\* line that measures 760 or more is one of the words of the title
C25_OnlySingleWordOverflows ==
    \A c \in Calls :
        HasLayout(c) =>
            \A i \in 1..Len(calls[c].lines) :
                LET line == calls[c].lines[i]
                IN  /\ " " \in Range(line) => measureText(line) < 760
                    /\ measureText(line) >= 760 =>
                           /\ " " \notin Range(line)
                           /\ line \in Range(calls[c].words)

\* generateThumbnailWithImage("Hello World") at 152 per character: the
\* line "Hello" measures 760 and is a single word
C25_Witness ==
    /\ calls[1].mode = "image"
    /\ calls[1].pc = "returned"
    /\ charWidth = 152
    /\ calls[1].lines =
           << << "H", "e", "l", "l", "o" >>, << "W", "o", "r", "l", "d" >> >>
    /\ measureText(calls[1].lines[1]) >= 760

\* the first word of a line: the line up to its first space
FirstWord(line) ==
    IF \E i \in 1..Len(line) : line[i] = " "
    THEN SubSeq(line, 1,
                (CHOOSE i \in 1..Len(line) :
                    line[i] = " " /\ \A j \in 1..(i - 1) : line[j] # " ") - 1)
    ELSE line

\* C26: a line is broken only when the next word does not fit: every line
\* but the last, followed by a space and the first word of the next line,
\* measures 760 or more
C26_BrokenOnlyWhenNextWordDoesNotFit ==
    \A c \in Calls :
        HasLayout(c) =>
            \A i \in 1..(Len(calls[c].lines) - 1) :
                measureText(calls[c].lines[i] \o << " " >>
                                \o FirstWord(calls[c].lines[i + 1])) >= 760

\* generateThumbnailWithImage("a b c d e") at 152 per character: "a b"
\* with " c" and "c d" with " e" measure exactly 760
C26_Witness ==
    /\ calls[1].mode = "image"
    /\ calls[1].pc = "written"
    /\ charWidth = 152
    /\ calls[1].lines =
           << << "a", " ", "b" >>, << "c", " ", "d" >>, << "e" >> >>
    /\ FirstWord(calls[1].lines[2]) = << "c" >>
    /\ measureText(<< "a", " ", "b", " ", "c" >>) = 760

\* C27: the lines of a layout are all drawn at a y inside the canvas,
\* 0 <= y <= 400, exactly when the layout has at most 9 lines; with 10 or
\* more lines the first is drawn at a negative y and the last above 400;
\* every line of the layout is drawn all the same
C27_InsideCanvasUpToNineLines ==
    \A c \in Calls :
        HasDrawn(c) =>
            LET n == Len(calls[c].lines)
                text == calls[c].canvas.text
            IN  /\ Len(text) = n
                /\ \A j \in 1..n : text[j].text = calls[c].lines[j]
                /\ (\A j \in 1..n : text[j].y >= 0 /\ text[j].y <= 400) <=> n <= 9
                /\ n >= 10 => text[1].y < 0 /\ text[n].y > 400

\* generateThumbnail("a b c d e f g h i j") at 380 per character has
\* returned with its ten lines drawn from y = -25 to y = 425
C27_Witness ==
    /\ calls[1].mode = "solid"
    /\ calls[1].pc = "returned"
    /\ charWidth = 380
    /\ Len(calls[1].lines) = 10
    /\ Len(calls[1].canvas.text) = 10
    /\ calls[1].canvas.text[1].y = -25
    /\ calls[1].canvas.text[10].y = 425

\* the number of clicks handled since the last onOpenChange, or since the
\* mount when there was none
ClicksSinceLastCallback ==
    LET callbacks == { i \in 1..Len(events) : events[i] = "onOpenChange" }
        last == IF callbacks = { } THEN 0
                ELSE CHOOSE i \in callbacks : \A j \in callbacks : j <= i
    IN  Len(events) - last

\* C28: the mobile menu starts closed; after any clicks and callbacks it is
\* open exactly when an odd number of clicks was handled since the last
\* onOpenChange, or since the mount; right after an onOpenChange it is
\* closed; MobileNav is rendered exactly while it is open
C28_MenuOpenOnOddClicks ==
    /\ events = << >> => ~ isMobileOpen
    /\ isMobileOpen <=> ClicksSinceLastCallback % 2 = 1
    /\ ( events # << >> /\ events[Len(events)] = "onOpenChange" ) => ~ isMobileOpen
    /\ MobileNavRendered <=> isMobileOpen

\* after two clicks, a third click, a callback of MobileNav and one more
\* click the menu is open and MobileNav is rendered
C28_Witness ==
    /\ events = << "click", "click", "click", "onOpenChange", "click" >>
    /\ isMobileOpen
    /\ MobileNavRendered

\* the indexes of the published posts
PublishedIndexes == { i \in 1..Len(posts) : posts[i].published }

\* C29: sitemap() returns the site root, then /blog, then one entry per
\* published post in the order of the posts, each with the URL
\* https://hamidul-islam.vercel.app/blog/<slug>; a post that is not
\* published has no entry, so there are 2 + (number of published posts)
\* entries
C29_SitemapListsPublishedPosts ==
    sitemapResult.called =>
        LET entries == sitemapResult.entries
        IN  /\ Len(entries) = 2 + Cardinality(PublishedIndexes)
            /\ entries[1].url = "https://hamidul-islam.vercel.app"
            /\ entries[2].url = "https://hamidul-islam.vercel.app/blog"
            /\ \A i \in PublishedIndexes :
                   entries[2 + Cardinality({ j \in PublishedIndexes : j <= i })].url
                       = "https://hamidul-islam.vercel.app/blog/" \o posts[i].slug
            /\ \A i \in 1..Len(posts) :
                   ~ posts[i].published =>
                       \A k \in 1..Len(entries) :
                           entries[k].url #
                               "https://hamidul-islam.vercel.app/blog/" \o posts[i].slug

\* sitemap() was called with a published, an unpublished and a published
\* post: four entries, the two posts in their order
C29_Witness ==
    /\ sitemapResult.called
    /\ Len(posts) = 3
    /\ posts[1].published /\ ~ posts[2].published /\ posts[3].published
    /\ posts[1].slug = "second-post"
    /\ posts[3].slug = "first-post"
    /\ Len(sitemapResult.entries) = 4
    /\ sitemapResult.entries[3].url = "https://hamidul-islam.vercel.app/blog/second-post"
    /\ sitemapResult.entries[4].url = "https://hamidul-islam.vercel.app/blog/first-post"

\* the part of a returned string between '/thumbnails/' and '.png'
StemOf(ret) == SubSeq(ret, Len(ThumbnailsUrlPrefix) + 1, Len(ret) - Len(DotPng))

\* C30: the file name generateThumbnailWithImage builds is made of
\* characters of [a-z0-9_] followed by '.png', with as many characters
\* before '.png' as the title has, and the replace-and-lowercase rule
\* applied to it again leaves it as it is
C30_SanitizedNameIsStable ==
    \A c \in Calls :
        ( calls[c].mode = "image" /\ calls[c].pc = "returned" ) =>
            LET stem == StemOf(calls[c].ret)
            IN  /\ IsPrefix(ThumbnailsUrlPrefix, calls[c].ret)
                /\ EndsWith(calls[c].ret, DotPng)
                /\ calls[c].outputPath[Len(calls[c].outputPath)] = Str(stem \o DotPng)
                /\ Range(stem) \subseteq
                       { LowerCase[i] : i \in 1..26 } \cup Digits \cup { "_" }
                /\ Len(stem) = Len(calls[c].title)
                /\ toLowerCase(replaceNonAlnum(stem)) = stem

\* generateThumbnailWithImage("A/B:C?") has returned /thumbnails/a_b_c_.png
C30_Witness ==
    /\ calls[1].mode = "image"
    /\ calls[1].pc = "returned"
    /\ calls[1].title = << "A", "/", "B", ":", "C", "?" >>
    /\ StemOf(calls[1].ret) = << "a", "_", "b", "_", "c", "_" >>
    /\ calls[1].outputPath[Len(calls[1].outputPath)] = "a_b_c_.png"

=============================================================================
